---- MODULE Spec2Model ----
(***************************************************************************)
(* The ID-file codec of isisinterface.py: IDFile.write, IDFile.read and    *)
(* the encoding bridge of encoding.py.                                     *)
(*                                                                         *)
(* A text is a sequence of characters; a character is a one-character      *)
(* string, or "U+XXXX" for a character outside ASCII.  A Python value is a *)
(* tagged pair: <<"str", text>>, <<"list", <<value, ...>> >> or            *)
(* <<"dict", << <<key, value>>, ... >> >> (a dict keeps insertion order).  *)
(* A record is the item sequence of a dict from key text to field value;   *)
(* the values of a subfield dict are texts.                                *)
(***************************************************************************)
EXTENDS Integers, Sequences, FiniteSets, TLC

VARIABLES
    records,   \* the argument of the write call
    wresult,   \* how the write call ended: "none", "ok", "reported" or the exception raised
    file,      \* the ID file on disk: <<"absent">> or <<"bytes", content>>
    rec_list,  \* what the read call gave: <<"none">>, <<"ok", list>> or <<"raise", exception>>
    pc         \* "start", "written", "exported", "read"

vars == <<records, wresult, file, rec_list, pc>>

----------------------------------------------------------------------------
(* Characters: the code points Python compares, encodes and classifies by. *)

OrdTable ==
    { <<"\n", 10>>, <<" ", 32>>, <<"!", 33>>, <<"#", 35>>, <<"&", 38>>,
      <<"0", 48>>, <<"1", 49>>, <<"2", 50>>, <<"3", 51>>, <<"4", 52>>,
      <<"5", 53>>, <<"6", 54>>, <<"7", 55>>, <<"8", 56>>, <<"9", 57>>,
      <<";", 59>>, <<"C", 67>>, <<"D", 68>>, <<"E", 69>>,
      <<"I", 73>>, <<"P", 80>>, <<"R", 82>>, <<"S", 83>>, <<"V", 86>>,
      <<"[", 91>>, <<"\\", 92>>, <<"]", 93>>, <<"^", 94>>, <<"_", 95>>,
      <<"a", 97>>, <<"b", 98>>, <<"v", 118>>,
      <<"U+00E9", 233>>,     \* e acute: inside iso-8859-1
      <<"U+2028", 8232>>,    \* LINE SEPARATOR: whitespace outside iso-8859-1
      <<"U+20AC", 8364>>,    \* euro sign: outside iso-8859-1
      <<"U+2145", 8517>>,    \* the character of the html5 entity "DD;"
      <<"U+FFFD", 65533>>,   \* REPLACEMENT CHARACTER
      <<"U+FFFE", 65534>> }  \* a noncharacter outside iso-8859-1

Alphabet == { p[1] : p \in OrdTable }

OrdOf == [c \in Alphabet |-> (CHOOSE p \in OrdTable : p[1] = c)[2]]

Ord(c) == OrdOf[c]

Chr(n) == (CHOOSE p \in OrdTable : p[2] = n)[1]

Digits == <<"0", "1", "2", "3", "4", "5", "6", "7", "8", "9">>

IsDigit(c) == \E i \in 1..10 : Digits[i] = c

\* str.isspace over the alphabet (str.split() and str.strip() use it).
IsSpace(c) == c \in {" ", "\n", "U+2028"}

----------------------------------------------------------------------------
(* Python's str operations.                                                *)

RECURSIVE Flatten(_)
Flatten(ss) == IF ss = <<>> THEN <<>> ELSE Head(ss) \o Flatten(Tail(ss))

RECURSIVE JoinWith(_, _)
JoinWith(ss, sep) ==
    IF ss = <<>> THEN <<>>
    ELSE IF Len(ss) = 1 THEN ss[1]
    ELSE ss[1] \o sep \o JoinWith(Tail(ss), sep)

StartsWith(s, p) == Len(s) >= Len(p) /\ SubSeq(s, 1, Len(p)) = p

Drop(s, n) == SubSeq(s, n + 1, Len(s))

Take(s, n) == SubSeq(s, 1, IF n < Len(s) THEN n ELSE Len(s))

\* str.replace(old, new), old non-empty: leftmost matches, not overlapping
RECURSIVE Replace(_, _, _)
Replace(s, old, new) ==
    IF Len(s) < Len(old) THEN s
    ELSE IF StartsWith(s, old) THEN new \o Replace(Drop(s, Len(old)), old, new)
    ELSE <<Head(s)>> \o Replace(Tail(s), old, new)

\* str.split(sep), sep non-empty
RECURSIVE SplitFrom(_, _, _)
SplitFrom(s, sep, cur) ==
    IF Len(s) < Len(sep) THEN <<cur \o s>>
    ELSE IF StartsWith(s, sep) THEN <<cur>> \o SplitFrom(Drop(s, Len(sep)), sep, <<>>)
    ELSE SplitFrom(Tail(s), sep, Append(cur, Head(s)))

Split(s, sep) == SplitFrom(s, sep, <<>>)

\* str.split() without argument: the maximal runs of non-whitespace
RECURSIVE WordsFrom(_, _)
WordsFrom(s, cur) ==
    IF s = <<>> THEN (IF cur = <<>> THEN <<>> ELSE <<cur>>)
    ELSE IF IsSpace(Head(s))
         THEN (IF cur = <<>> THEN <<>> ELSE <<cur>>) \o WordsFrom(Tail(s), <<>>)
         ELSE WordsFrom(Tail(s), Append(cur, Head(s)))

SplitWS(s) == WordsFrom(s, <<>>)

RECURSIVE LStrip(_)
LStrip(s) == IF s # <<>> /\ IsSpace(Head(s)) THEN LStrip(Tail(s)) ELSE s

RECURSIVE RStrip(_)
RStrip(s) ==
    IF s # <<>> /\ IsSpace(s[Len(s)]) THEN RStrip(SubSeq(s, 1, Len(s) - 1)) ELSE s

Strip(s) == RStrip(LStrip(s))

RECURSIVE Zfill(_, _)
Zfill(s, width) == IF Len(s) >= width THEN s ELSE Zfill(<<"0">> \o s, width)

\* str(n) for n >= 0
RECURSIVE StrOfInt(_)
StrOfInt(n) ==
    IF n < 10 THEN <<Digits[n + 1]>>
    ELSE Append(StrOfInt(n \div 10), Digits[(n % 10) + 1])

\* int(s) for a text of decimal digits
RECURSIVE IntOfDigits(_, _)
IntOfDigits(s, acc) ==
    IF s = <<>> THEN acc
    ELSE IntOfDigits(Tail(s), 10 * acc + (Ord(Head(s)) - 48))

\* int(s): surrounding whitespace is ignored; anything but digits raises
IntOf(s) ==
    LET t == Strip(s)
    IN  IF t # <<>> /\ \A i \in 1..Len(t) : IsDigit(t[i])
        THEN <<"ok", IntOfDigits(t, 0)>>
        ELSE <<"raise", "ValueError">>

\* s < t for Python strings: by code point, a proper prefix first
RECURSIVE StrLess(_, _)
StrLess(s, t) ==
    IF t = <<>> THEN FALSE
    ELSE IF s = <<>> THEN TRUE
    ELSE IF Head(s) = Head(t) THEN StrLess(Tail(s), Tail(t))
    ELSE Ord(Head(s)) < Ord(Head(t))

\* substring test: sub in s
RECURSIVE IsSubstring(_, _)
IsSubstring(sub, s) ==
    IF StartsWith(s, sub) THEN TRUE
    ELSE IF s = <<>> THEN FALSE
    ELSE IsSubstring(sub, Tail(s))

----------------------------------------------------------------------------
(* html.unescape (isisinterface.py calls it in write and in read).  The    *)
(* character-reference pattern is                                          *)
(*   &(#[0-9]+;?|#[xX][0-9a-fA-F]+;?|[^\t\n\f <&#;]{1,32};?)               *)
(* The alphabet has no x and no X, so the hexadecimal alternative never    *)
(* matches; of the html5 entity names only "DD;" is spelled with           *)
(* characters of the alphabet.                                             *)

IsNameChar(c) == c \notin {"\t", "\n", "\f", " ", "<", "&", "#", ";"}

RECURSIVE DigitRun(_)
DigitRun(s) ==
    IF s # <<>> /\ IsDigit(Head(s)) THEN <<Head(s)>> \o DigitRun(Tail(s)) ELSE <<>>

RECURSIVE NameRun(_, _)
NameRun(s, max) ==
    IF max > 0 /\ s # <<>> /\ IsNameChar(Head(s))
    THEN <<Head(s)>> \o NameRun(Tail(s), max - 1)
    ELSE <<>>

\* the text the pattern's group matches at the start of r (r follows "&");
\* <<>> when the pattern does not match
CharrefMatch(r) ==
    LET WithSemi(m) ==
            IF Len(r) > Len(m) /\ r[Len(m) + 1] = ";" THEN Append(m, ";") ELSE m
    IN  IF r = <<>> THEN <<>>
        ELSE IF Head(r) = "#"
             THEN LET d == DigitRun(Tail(r))
                  IN  IF d = <<>> THEN <<>> ELSE WithSemi(<<"#">> \o d)
             ELSE LET n == NameRun(r, 32)
                  IN  IF n = <<>> THEN <<>> ELSE WithSemi(n)

\* html.entities.html5, the names over the alphabet
Html5 == { << <<"D", "D", ";">>, <<"U+2145">> >> }

InHtml5(name) == \E p \in Html5 : p[1] = name

Html5Of(name) == (CHOOSE p \in Html5 : p[1] = name)[2]

\* html._invalid_charrefs, the entries whose character is in the alphabet
InvalidCharrefs == { <<0, "U+FFFD">>, <<128, "U+20AC">> }

\* the keys of html._invalid_charrefs
IsInvalidCharref(n) == n \in {0, 13} \cup (128..159)

\* html._invalid_codepoints
IsInvalidCodepoint(n) ==
    \/ n \in (1..8) \cup {11} \cup (14..31) \cup (127..159) \cup (64976..65007)
    \/ (n % 65536) \in {65534, 65535}

RECURSIVE LongestEntityPrefix(_, _)
LongestEntityPrefix(s, x) ==
    IF x <= 1 THEN <<"&">> \o s
    ELSE IF InHtml5(SubSeq(s, 1, x)) THEN Html5Of(SubSeq(s, 1, x)) \o Drop(s, x)
    ELSE LongestEntityPrefix(s, x - 1)

\* html._replace_charref
ReplaceCharref(s) ==
    IF Head(s) = "#"
    THEN LET ds  == DigitRun(Tail(s))
             num == IntOfDigits(ds, 0)
         IN  IF IsInvalidCharref(num)
             THEN <<(CHOOSE p \in InvalidCharrefs : p[1] = num)[2]>>
             ELSE IF (55296 <= num /\ num <= 57343) \/ num > 1114111
             THEN <<"U+FFFD">>
             ELSE IF IsInvalidCodepoint(num) THEN <<>>
             ELSE <<Chr(num)>>
    ELSE IF InHtml5(s) THEN Html5Of(s)
    ELSE LongestEntityPrefix(s, Len(s) - 1)

RECURSIVE Unescape(_)
Unescape(s) ==
    IF s = <<>> THEN <<>>
    ELSE IF Head(s) # "&" THEN <<Head(s)>> \o Unescape(Tail(s))
    ELSE LET m == CharrefMatch(Tail(s))
         IN  IF m = <<>> THEN <<"&">> \o Unescape(Tail(s))
             ELSE ReplaceCharref(m) \o Unescape(Drop(Tail(s), Len(m)))

----------------------------------------------------------------------------
(* encoding.py, called with "iso-8859-1": bytes are the numbers 0..255.    *)

Latin1Encodable(content) == \A i \in 1..Len(content) : Ord(content[i]) < 256

RECURSIVE XmlCharRefReplace(_)
XmlCharRefReplace(content) ==
    IF content = <<>> THEN <<>>
    ELSE (IF Ord(Head(content)) < 256
          THEN <<Ord(Head(content))>>
          ELSE [i \in 1..(Len(StrOfInt(Ord(Head(content)))) + 3) |->
                   LET t == <<"&", "#">> \o StrOfInt(Ord(Head(content))) \o <<";">>
                   IN  Ord(t[i])])
         \o XmlCharRefReplace(Tail(content))

\* encode(content, "iso-8859-1"): strict first, character references on
\* UnicodeEncodeError
encode(content) ==
    IF Latin1Encodable(content)
    THEN [i \in 1..Len(content) |-> Ord(content[i])]
    ELSE XmlCharRefReplace(content)

\* decode(content, "iso-8859-1") of bytes
decode(bytes) == [i \in 1..Len(bytes) |-> Chr(bytes[i])]

----------------------------------------------------------------------------
(* Python values.                                                          *)

Str(s) == <<"str", s>>

List(items) == <<"list", items>>

Dict(items) == <<"dict", items>>

\* not x, for a str, a list or a dict
Falsy(x) == x[2] = <<>>

DictHas(items, k) == \E i \in 1..Len(items) : items[i][1] = k

\* items[k], for a key the dict has
DictGet(items, k) == items[CHOOSE i \in 1..Len(items) : items[i][1] = k][2]

\* d[k] = v (d.update({k: v})): a key keeps the place of its first insertion
DictSet(items, k, v) ==
    IF DictHas(items, k)
    THEN [i \in 1..Len(items) |-> IF items[i][1] = k THEN <<k, v>> ELSE items[i]]
    ELSE Append(items, <<k, v>>)

----------------------------------------------------------------------------
(* The serializer: isisinterface.py, format_value and IDFile._format_*.    *)

PRESERVECIRC ==
    <<"[", "P", "R", "E", "S", "E", "R", "V", "E", "C", "I", "R", "C", "]">>

MAX_DIGITS_QTD == 6

\* the range test of VALID_ID_RANGE = range(1, 10 ** MAX_DIGITS_QTD)
InValidIdRange(index) == 1 <= index /\ index < 10 ^ MAX_DIGITS_QTD

remove_break_lines_characters(content) == JoinWith(SplitWS(content), <<" ">>)

\* content is a str here, so content += "" does not raise
format_value(content) ==
    Replace(Strip(remove_break_lines_characters(content)), <<"^">>, PRESERVECIRC)

\* the literal of _format_subfield: "abcdefghijklmnopqrstuvwxyz123456789"
SubfieldCodes ==
    <<"a", "b", "c", "d", "e", "f", "g", "h", "i", "j", "k", "l", "m", "n",
      "o", "p", "q", "r", "s", "t", "u", "v", "w", "x", "y", "z",
      "1", "2", "3", "4", "5", "6", "7", "8", "9">>

_format_subfield(subf, subf_value) ==
    IF subf_value # <<>> /\ IsSubstring(subf, SubfieldCodes)
    THEN <<"^">> \o subf \o format_value(subf_value)
    ELSE <<>>

\* sorted(values) of a list of str
RECURSIVE InsertStr(_, _)
InsertStr(x, ss) ==
    IF ss = <<>> THEN <<x>>
    ELSE IF StrLess(x, Head(ss)) THEN <<x>> \o ss
    ELSE <<Head(ss)>> \o InsertStr(x, Tail(ss))

RECURSIVE InsertionSortStr(_)
InsertionSortStr(ss) ==
    IF ss = <<>> THEN <<>>
    ELSE InsertStr(ss[Len(ss)], InsertionSortStr(SubSeq(ss, 1, Len(ss) - 1)))

UnsortedStr(values) == values

SortedStr(values) == InsertionSortStr(values)

_format_subfields(subf_and_value_list) ==
    LET d      == subf_and_value_list
        main   == IF DictHas(d, <<"_">>) THEN DictGet(d, <<"_">>) ELSE <<>>
        first  == format_value(main)
        values == [i \in 1..Len(d) |-> _format_subfield(d[i][1], d[i][2])]
        value  == Flatten(SortedStr(values))
    IN  first \o value

\* tag is str(tag_i), a text of digits
_tag_content(tag, value) ==
    IF ~(0 < IntOfDigits(tag, 0) /\ IntOfDigits(tag, 0) <= 999)
    THEN <<"raise", "ValueError">>
    ELSE IF value = <<>> THEN <<"ok", <<>> >>
    ELSE <<"ok", <<"!", "v">> \o Zfill(tag, 3) \o <<"!">> \o value \o <<"\n">> >>

_tag_occ(tag, data) ==
    IF Falsy(data) THEN <<"ok", <<>> >>
    ELSE IF data[1] = "str"
         THEN _tag_content(tag, _format_subfields(<< <<(<<"_">>), data[2]>> >>))
    ELSE IF data[1] = "dict"
         THEN _tag_content(tag, _format_subfields(data[2]))
    ELSE <<"raise", "TypeError">>

\* the loop of _tag_data: the first exception ends it
RECURSIVE TagOccs(_, _)
TagOccs(tag, items) ==
    IF items = <<>> THEN <<"ok", <<>> >>
    ELSE LET h == _tag_occ(tag, Head(items))
         IN  IF h[1] = "raise" THEN h
             ELSE LET t == TagOccs(tag, Tail(items))
                  IN  IF t[1] = "raise" THEN t ELSE <<"ok", <<h[2]>> \o t[2]>>

_tag_data(tag, data) ==
    IF Falsy(data) THEN <<"ok", <<>> >>
    ELSE TagOccs(tag, IF data[1] = "list" THEN data[2] ELSE <<data>>)

\* sorted(ints)
RECURSIVE InsertInt(_, _)
InsertInt(x, ns) ==
    IF ns = <<>> THEN <<x>>
    ELSE IF x < Head(ns) THEN <<x>> \o ns
    ELSE <<Head(ns)>> \o InsertInt(x, Tail(ns))

RECURSIVE InsertionSortInt(_)
InsertionSortInt(ns) ==
    IF ns = <<>> THEN <<>>
    ELSE InsertInt(ns[Len(ns)], InsertionSortInt(SubSeq(ns, 1, Len(ns) - 1)))

UnsortedInt(ns) == ns

SortedInt(ns) == InsertionSortInt(ns)

\* the loop of _format_record over the sorted tags
RECURSIVE RecordItems(_, _)
RecordItems(record, tags) ==
    IF tags = <<>> THEN <<"ok", <<>> >>
    ELSE LET tag == StrOfInt(Head(tags))
         IN  IF ~DictHas(record, tag) THEN <<"raise", "KeyError">>
             ELSE LET h == _tag_data(tag, DictGet(record, tag))
                  IN  IF h[1] = "raise" THEN h
                      ELSE LET t == RecordItems(record, Tail(tags))
                           IN  IF t[1] = "raise" THEN t
                               ELSE <<"ok", h[2] \o t[2]>>

\* content_formatter is None, as in IDFile()
_format_record(record) ==
    IF record = <<>> THEN <<"ok", <<>> >>
    ELSE LET ints == [i \in 1..Len(record) |-> IntOf(record[i][1])]
         IN  IF \E i \in 1..Len(ints) : ints[i][1] = "raise"
             THEN <<"raise", "ValueError">>
             ELSE LET items ==
                          RecordItems(record,
                              SortedInt([i \in 1..Len(ints) |-> ints[i][2]]))
                  IN  IF items[1] = "raise" THEN items
                      ELSE <<"ok", Flatten(items[2])>>

_format_id(index) ==
    IF InValidIdRange(index)
    THEN <<"ok", <<"!", "I", "D", " ">>
                     \o Zfill(StrOfInt(index), MAX_DIGITS_QTD) \o <<"\n">> >>
    ELSE <<"raise", "IndexError">>

\* the loop of _format_file; index is the count of the records before recs
RECURSIVE FormatFrom(_, _)
FormatFrom(recs, index) ==
    IF recs = <<>> THEN <<"ok", <<>> >>
    ELSE LET id == _format_id(index + 1)
         IN  IF id[1] = "raise" THEN id
             ELSE LET r == _format_record(Head(recs))
                  IN  IF r[1] = "raise" THEN r
                      ELSE LET t == FormatFrom(Tail(recs), index + 1)
                           IN  IF t[1] = "raise" THEN t
                               ELSE <<"ok", id[2] \o r[2] \o t[2]>>

_format_file(recs) == FormatFrom(recs, 0)

\* write, from the result of _format_file to the text handed to fp.write
WriteContent(content) ==
    decode(encode(Replace(Unescape(content), PRESERVECIRC, <<"\\", "^">>)))

----------------------------------------------------------------------------
(* The parser: IDFile._get_field_data, _get_record_data and read.          *)

\* the loop of _get_field_data over subfields[1:]; subf[0] of an empty
\* segment raises
RECURSIVE FieldSubfields(_, _)
FieldSubfields(subfields, d) ==
    IF subfields = <<>> THEN <<"ok", Dict(d)>>
    ELSE IF Head(subfields) = <<>> THEN <<"raise", "IndexError">>
    ELSE FieldSubfields(Tail(subfields),
             DictSet(d, <<Head(subfields)[1]>>, Tail(Head(subfields))))

_get_field_data(field_content) ==
    LET parts     == Split(field_content, <<"^">>)
        subfields == [i \in 1..Len(parts) |-> Replace(parts[i], PRESERVECIRC, <<"^">>)]
    IN  IF Len(subfields) = 1 THEN <<"ok", Str(subfields[1])>>
        ELSE FieldSubfields(Tail(subfields),
                 IF subfields[1] # <<>>
                 THEN << <<(<<"_">>), subfields[1]>> >>
                 ELSE <<>>)

\* the first loop of _get_record_data: data maps a tag to the list of its
\* occurrences
RECURSIVE RecordFields(_, _)
RecordFields(fields, data) ==
    IF fields = <<>> THEN <<"ok", data>>
    ELSE LET field == Head(fields)
             tag   == IntOf(Take(field, 3))
         IN  IF tag[1] = "raise" THEN tag
             ELSE LET field_tag  == StrOfInt(tag[2])
                      field_data == _get_field_data(Strip(Drop(field, 4)))
                  IN  IF field_data[1] = "raise" THEN field_data
                      ELSE RecordFields(Tail(fields),
                               DictSet(data, field_tag,
                                   Append(IF DictHas(data, field_tag)
                                          THEN DictGet(data, field_tag)
                                          ELSE <<>>,
                                          field_data[2])))

CollapseAlways(tag_content) == tag_content[1]

\* the second loop of _get_record_data, for one tag
Collapse(tag_content) ==
    IF Len(tag_content) = 1 THEN tag_content[1] ELSE List(tag_content)

_get_record_data(record) ==
    LET data == RecordFields(Tail(Split(record, <<"\n", "!", "v">>)), <<>>)
    IN  IF data[1] = "raise" THEN data
        ELSE <<"ok", [i \in 1..Len(data[2]) |->
                         <<data[2][i][1], Collapse(data[2][i][2])>>]>>

\* the loop of read over records[1:]
RECURSIVE ReadRecords(_)
ReadRecords(bodies) ==
    IF bodies = <<>> THEN <<"ok", <<>> >>
    ELSE LET h == _get_record_data(Head(bodies))
         IN  IF h[1] = "raise" THEN h
             ELSE LET t == ReadRecords(Tail(bodies))
                  IN  IF t[1] = "raise" THEN t ELSE <<"ok", <<h[2]>> \o t[2]>>

\* read, from the bytes of the file; encoding.decode of a str returns it
ReadContent(bytes) ==
    LET iso_content  == decode(bytes)
        utf8_content == Replace(Unescape(iso_content), <<"\\", "^">>, PRESERVECIRC)
    IN  ReadRecords(Tail(Split(utf8_content, <<"!", "I", "D", " ">>)))

----------------------------------------------------------------------------
(* The inputs of the write call and the files of the database export.      *)

MaxSubfields == 2   \* entries of a subfield dict
MaxTags == 2        \* keys of a record
MaxOccs == 2        \* occurrences of a repeatable field
MaxRecords == 2     \* records of a write call
MaxLines == 3       \* field lines of an exported record

\* all sequences over S of length lo..hi
SeqsOf(S, lo, hi) == UNION { [1..n -> S] : n \in lo..hi }

Distinct(seq) == \A i, j \in 1..Len(seq) : i # j => seq[i] # seq[j]

PlainValues ==
    { <<>>, <<" ">>, <<"a">>, <<"a", " ", "b">>, <<" ", "a">>, <<"a", "\n", "b">>,
      <<"^">>, <<"a", "^">>, <<"^", "a">>, <<"^", "^">>, <<"a", "^", "b">>,
      <<" ", "^">>, <<"\\">>, <<"a", "\\">>, <<"\\", "^">>,
      <<"&">>, <<"&", "#", "9", "4", ";">>, <<"a", "&", "#", "9", "4", ";">>,
      <<"&", "#", "1", "0", ";">>, <<"a", "&", "#", "1", "0", ";", "b">>,
      <<"&", "#", "8", "3", "6", "4", ";">>, <<"&", "#", "8", "2", "3", "2", ";">>,
      <<"&", "#", "6", "5", "5", "3", "4", ";">>, <<"&", "D", "D", ";">>,
      <<"U+20AC">>, <<"a", "U+20AC", "1">>, <<"U+FFFE">>, <<"a", "U+2028", "b">>,
      <<"U+00E9">>, PRESERVECIRC, <<"!", "I", "D", " ", "a">> }

\* the main-value key and two subfield codes
CodedKeys == { <<"_">>, <<"a">>, <<"b">> }

SubfieldValues == { <<>>, <<" ">>, <<"a">>, <<"^">>, <<"\\">> }

CodedDicts ==
    { d \in SeqsOf(CodedKeys \X SubfieldValues, 0, MaxSubfields) :
          Distinct([i \in 1..Len(d) |-> d[i][1]]) }

\* keys that are no subfield code: two characters, none, uppercase, zero
OddKeys == { <<"a", "b">>, <<>>, <<"D">>, <<"0">> }

OddDicts ==
    { d \in SeqsOf((OddKeys \cup {<<"a">>}) \X {<<"a">>, <<"v">>}, 1, 2) :
          /\ Distinct([i \in 1..Len(d) |-> d[i][1]])
          /\ \E i \in 1..Len(d) : d[i][1] \in OddKeys }

SubfieldDicts == CodedDicts \cup OddDicts

\* one record, one tag, one occurrence
OccurrenceInputs ==
    { << << <<(<<"1">>), occ>> >> >> :
          occ \in { Str(v) : v \in PlainValues } \cup { Dict(d) : d \in SubfieldDicts } }

TagKeys ==
    { <<"9">>, <<"1", "0">>, <<"2", "4", "5">>, <<"0", "7">>, <<"0">>,
      <<"1", "0", "0", "0">> }

TagFields == { Str(<<"a">>), Str(<<>>), List(<<Str(<<"a">>), Str(<<"b">>)>>) }

\* one record of several tags
TagInputs ==
    { <<r>> : r \in { x \in SeqsOf(TagKeys \X TagFields, 0, MaxTags) :
                          Distinct([i \in 1..Len(x) |-> x[i][1]]) } }

ListOccurrences ==
    { Str(<<>>), Str(<<"a">>), Str(<<"b">>), Dict(<< <<(<<"a">>), <<"b">>>> >>),
      List(<<Str(<<"a">>)>>) }

\* one record, one repeatable field
ListInputs ==
    { << << <<(<<"1">>), List(occs)>> >> >> : occs \in SeqsOf(ListOccurrences, 0, MaxOccs) }

SmallRecords ==
    { <<>>,
      << <<(<<"1">>), Str(<<"a">>)>> >>,
      << <<(<<"2">>), List(<<Str(<<"a">>), Str(<<"b">>)>>)>> >>,
      << <<(<<"1", "0", "0", "0">>), Str(<<"a">>)>> >> }

RecordInputs == SeqsOf(SmallRecords, 0, MaxRecords)

Inputs == OccurrenceInputs \cup TagInputs \cup ListInputs \cup RecordInputs

\* the field lines a database export is made of
ExportLines ==
    { <<"!", "v", "0", "0", "1", "!", "a", "\n">>,
      <<"!", "v", "0", "0", "1", "!", "b", "^", "a", "b", "\n">>,
      <<"!", "v", "0", "0", "2", "!", "a", "\n">>,
      <<"!", "v", "0", "0", "2", "!", "b", "\n">>,
      <<"!", "v", "0", "0", "2", "!", "a", "^", "\n">>,
      <<"!", "v", "a", "0", "2", "!", "a", "\n">> }

Exports ==
    { <<"!", "I", "D", " ", "0", "0", "0", "0", "0", "1", "\n">> \o Flatten(ls) :
          ls \in SeqsOf(ExportLines, 0, MaxLines) }

----------------------------------------------------------------------------
(* The operations.                                                         *)

Init ==
    /\ records = <<>>
    /\ wresult = "none"
    /\ file = <<"absent">>
    /\ rec_list = <<"none">>
    /\ pc = "start"

\* IDFile.write(filename, recs): an exception of _format_file leaves write
\* before the file is opened; otherwise the content is written, unless open
\* or fp.write raises IOError or OSError (opened is FALSE): that exception is
\* printed, not raised, and no file is left
Write(recs, opened) ==
    /\ pc = "start"
    /\ LET content == _format_file(recs)
       IN  IF content[1] = "raise"
           THEN /\ wresult' = content[2]
                /\ file' = file
           ELSE IF opened
           THEN /\ wresult' = "ok"
                /\ file' = <<"bytes", encode(WriteContent(content[2]))>>
           ELSE /\ wresult' = "reported"
                /\ file' = file
    /\ records' = recs
    /\ rec_list' = rec_list
    /\ pc' = "written"

\* CISIS.i2id: the database engine exports an ID file
I2id(content) ==
    /\ pc = "start"
    /\ file' = <<"bytes", encode(content)>>
    /\ pc' = "exported"
    /\ UNCHANGED <<records, wresult, rec_list>>

\* IDFile.read(filename)
Read ==
    /\ pc \in {"written", "exported"}
    /\ rec_list' = IF file[1] = "absent"
                   THEN <<"raise", "FileNotFoundError">>
                   ELSE ReadContent(file[2])
    /\ pc' = "read"
    /\ UNCHANGED <<records, wresult, file>>

Next ==
    \/ \E recs \in Inputs, opened \in BOOLEAN : Write(recs, opened)
    \/ \E content \in Exports : I2id(content)
    \/ Read

Spec == Init /\ [][Next]_vars

----------------------------------------------------------------------------
(* What the claims speak of.                                               *)

\* the text of the file on disk
FileText == IF file[1] = "bytes" THEN decode(file[2]) ELSE <<>>

\* the write call returned after writing the file
WriteOk == pc \in {"written", "read"} /\ wresult = "ok"

\* the write call wrote the file and the read call has returned
RoundTrip == pc = "read" /\ wresult = "ok"

Count(s, c) == Cardinality({ i \in 1..Len(s) : s[i] = c })

HasChar(s, c) == \E i \in 1..Len(s) : s[i] = c

PermsOf(n) ==
    { f \in [1..n -> 1..n] : \A i, j \in 1..n : i # j => f[i] # f[j] }

Permuted(seq, f) == [i \in 1..Len(seq) |-> seq[f[i]]]

\* a tag key as the record model has it: the decimal rendering of its number
CanonicalKey(key) == IntOf(key)[1] = "ok" /\ StrOfInt(IntOf(key)[2]) = key

ValidTagKey(key) == CanonicalKey(key) /\ IntOf(key)[2] \in 1..999

ValidTags(record) == \A i \in 1..Len(record) : ValidTagKey(record[i][1])

\* a single-character subfield code of a-z, 1-9
IsCode(k) == Len(k) = 1 /\ IsSubstring(k, SubfieldCodes)

\* the occurrences of a field value, in order
OccsOf(field) == IF field[1] = "list" THEN field[2] ELSE <<field>>

\* the occurrences the read call returned for record i and tag key
ParsedOccs(i, key) ==
    IF rec_list[1] = "ok" /\ i <= Len(rec_list[2]) /\ DictHas(rec_list[2][i], key)
    THEN OccsOf(DictGet(rec_list[2][i], key))
    ELSE <<>>

\* Python's == on values: a dict compares as a set of items
RECURSIVE Canon(_)
Canon(x) ==
    IF x[1] = "str" THEN x
    ELSE IF x[1] = "dict" THEN <<"dict", { x[2][i] : i \in 1..Len(x[2]) }>>
    ELSE <<"list", [i \in 1..Len(x[2]) |-> Canon(x[2][i])]>>

CanonRecord(record) == { <<record[i][1], Canon(record[i][2])>> : i \in 1..Len(record) }

CanonRecords(recs) == [i \in 1..Len(recs) |-> CanonRecord(recs[i])]

\* the scalar collapse the round trip is allowed
CollapseField(field) ==
    IF field[1] = "list" /\ Len(field[2]) = 1 THEN field[2][1] ELSE field

CollapseRecords(recs) ==
    [i \in 1..Len(recs) |->
        [j \in 1..Len(recs[i]) |-> <<recs[i][j][1], CollapseField(recs[i][j][2])>>]]

IsAscii(s) == \A i \in 1..Len(s) : Ord(s[i]) < 128

\* a text that whitespace normalization and entity resolution, the two
\* rewritings the codec documents, leave as it is
Settled(s) == remove_break_lines_characters(s) = s /\ Unescape(s) = s

\* a non-empty ASCII string, or a subfield set of non-empty ASCII strings
\* under the main-value key or a subfield code
C1Occurrence(occ) ==
    \/ occ[1] = "str" /\ occ[2] # <<>> /\ IsAscii(occ[2]) /\ Settled(occ[2])
    \/ /\ occ[1] = "dict"
       /\ \E i \in 1..Len(occ[2]) : IsCode(occ[2][i][1])
       /\ \A i \in 1..Len(occ[2]) :
              /\ occ[2][i][1] = <<"_">> \/ IsCode(occ[2][i][1])
              /\ occ[2][i][2] # <<>>
              /\ IsAscii(occ[2][i][2])
              /\ Settled(occ[2][i][2])

C1Field(field) ==
    IF field[1] = "list"
    THEN field[2] # <<>> /\ \A i \in 1..Len(field[2]) : C1Occurrence(field[2][i])
    ELSE C1Occurrence(field)

C1Domain(recs) ==
    \A i \in 1..Len(recs) :
        /\ ValidTags(recs[i])
        /\ \A j \in 1..Len(recs[i]) : C1Field(recs[i][j][2])

\* C1 (as claimed, on values that whitespace normalization and entity
\* resolution leave as they are): for record sequences with tags in 1..999
\* and non-empty ASCII values (plain, subfield sets, repeatable), read of
\* the file that write produced returns the input, up to a one-element list
\* coming back as a scalar occurrence.
C1_RoundTrip ==
    (RoundTrip /\ C1Domain(records)) =>
        /\ rec_list[1] = "ok"
        /\ CanonRecords(rec_list[2]) = CanonRecords(CollapseRecords(records))

\* C2 (as claimed, on values that whitespace normalization and entity
\* resolution leave as they are): in a record with valid tags, a main value
\* or subfield value that contains "^" comes back from write and read
\* unchanged and in its place: a plain occurrence as a plain occurrence, a
\* subfield value under its key, no "^" of it taken for a subfield boundary.
C2_CircumflexPreserved ==
    (RoundTrip /\ C1Domain(records)) =>
        \A i \in 1..Len(records) :
            \A j \in 1..Len(records[i]) :
                LET key    == records[i][j][1]
                    occs   == OccsOf(records[i][j][2])
                    parsed == ParsedOccs(i, key)
                IN  \A n \in 1..Len(occs) :
                        /\ (occs[n][1] = "str" /\ HasChar(occs[n][2], "^")) =>
                               \E m \in 1..Len(parsed) : parsed[m] = occs[n]
                        /\ occs[n][1] = "dict" =>
                               \A e \in 1..Len(occs[n][2]) :
                                   LET k == occs[n][2][e][1]
                                       v == occs[n][2][e][2]
                                   IN  HasChar(v, "^") =>
                                           \E m \in 1..Len(parsed) :
                                               /\ parsed[m][1] = "dict"
                                               /\ DictHas(parsed[m][2], k)
                                               /\ DictGet(parsed[m][2], k) = v

\* C3 (as claimed): a write call whose record sequence holds a record at a
\* position above 999999, or a tag key whose number is outside 1..999,
\* ends in a range error and leaves no output, whatever the field value.
C3_RangeEnforced ==
    (/\ pc \in {"written", "read"}
     /\ \A i \in 1..Len(records) :
            \A j \in 1..Len(records[i]) : CanonicalKey(records[i][j][1])
     /\ \/ Len(records) > 999999
        \/ \E i \in 1..Len(records) :
               \E j \in 1..Len(records[i]) : ~ValidTagKey(records[i][j][1])) =>
        /\ wresult \in {"IndexError", "ValueError"}
        /\ file = <<"absent">>

\* the decimal numeric character reference of a character
CharRef(c) == <<"&", "#">> \o StrOfInt(Ord(c)) \o <<";">>

\* C4 (as claimed): a value with a character outside iso-8859-1 never makes
\* write raise an encoding error, the character is in the written stream
\* as its decimal reference, and read returns the value with the character.
C4_UnicodeSurvives ==
    /\ wresult \notin {"UnicodeEncodeError", "UnicodeError"}
    /\ \A i \in 1..Len(records) : ValidTags(records[i]) =>
           \A j \in 1..Len(records[i]) :
               LET key  == records[i][j][1]
                   occs == OccsOf(records[i][j][2])
               IN  \A n \in 1..Len(occs) : occs[n][1] = "str" =>
                       \A x \in 1..Len(occs[n][2]) :
                           LET c == occs[n][2][x]
                           IN  Ord(c) > 255 =>
                                   /\ WriteOk => IsSubstring(CharRef(c), FileText)
                                   /\ RoundTrip =>
                                          \E m \in 1..Len(ParsedOccs(i, key)) :
                                              /\ ParsedOccs(i, key)[m][1] = "str"
                                              /\ HasChar(ParsedOccs(i, key)[m][2], c)

\* the lines of a text: what precedes each newline
LinesOf(text) ==
    LET parts == Split(text, <<"\n">>) IN SubSeq(parts, 1, Len(parts) - 1)

\* the line terminators the serializer emitted: format_value leaves no
\* newline in a value, so these are the newlines of _format_file's result
EmittedTerminators(recs) == Count(_format_file(recs)[2], "\n")

\* C5 (as claimed): every newline of the written text ends an "!ID" line or
\* a "!v" line the serializer emitted; none lies inside a field's content.
C5_NewlinesAreTerminators ==
    WriteOk =>
        /\ Count(FileText, "\n") = EmittedTerminators(records)
        /\ \A n \in 1..Len(LinesOf(FileText)) :
               \/ StartsWith(LinesOf(FileText)[n], <<"!", "I", "D", " ">>)
               \/ StartsWith(LinesOf(FileText)[n], <<"!", "v">>)

\* an occurrence with nothing in it once normalized: an empty or
\* whitespace-only string, or a subfield set whose values are all such
EmptyOnceNormalized(occ) ==
    IF occ[1] = "str" THEN SplitWS(occ[2]) = <<>>
    ELSE IF occ[1] = "dict"
    THEN \A e \in 1..Len(occ[2]) : SplitWS(occ[2][e][2]) = <<>>
    ELSE FALSE

\* the "!v" lines of a text
FieldLines(text) == SelectSeq(LinesOf(text), LAMBDA l : StartsWith(l, <<"!", "v">>))

\* the subfield delimiters the serializer emitted: format_value leaves no
\* "^" in a value, so these are the "^" of _format_file's result
EmittedDelimiters(recs) == Count(_format_file(recs)[2], "^")

\* the subfield entries whose value is not empty once normalized
RECURSIVE NonEmptyEntries(_)
NonEmptyEntries(d) ==
    IF d = <<>> THEN 0
    ELSE (IF SplitWS(Head(d)[2]) = <<>> THEN 0 ELSE 1) + NonEmptyEntries(Tail(d))

RECURSIVE NonEmptyEntriesOfOccs(_)
NonEmptyEntriesOfOccs(occs) ==
    IF occs = <<>> THEN 0
    ELSE (IF Head(occs)[1] = "dict" THEN NonEmptyEntries(Head(occs)[2]) ELSE 0)
         + NonEmptyEntriesOfOccs(Tail(occs))

RECURSIVE NonEmptyEntriesOfRecord(_)
NonEmptyEntriesOfRecord(record) ==
    IF record = <<>> THEN 0
    ELSE NonEmptyEntriesOfOccs(OccsOf(Head(record)[2]))
         + NonEmptyEntriesOfRecord(Tail(record))

RECURSIVE NonEmptyEntriesOf(_)
NonEmptyEntriesOf(recs) ==
    IF recs = <<>> THEN 0
    ELSE NonEmptyEntriesOfRecord(Head(recs)) + NonEmptyEntriesOf(Tail(recs))

\* every key of every subfield set is the main-value key or a subfield code
CodedSubfields(recs) ==
    \A i \in 1..Len(recs) : \A j \in 1..Len(recs[i]) :
        \A n \in 1..Len(OccsOf(recs[i][j][2])) :
            LET occ == OccsOf(recs[i][j][2])[n]
            IN  occ[1] = "dict" =>
                    \A e \in 1..Len(occ[2]) :
                        occ[2][e][1] = <<"_">> \/ IsCode(occ[2][e][1])

\* C8 (as claimed, for subfield sets keyed by "_" and subfield codes): no "!v" line is emitted for an occurrence whose main
\* value and subfield values are all empty once normalized (empty or
\* whitespace-only strings, empty subfield sets), and every subfield token
\* "^"+code that is emitted carries a value that is not empty once
\* normalized.
C8_EmptyDrop ==
    (WriteOk /\ CodedSubfields(records)) =>
        /\ (\A i \in 1..Len(records) : \A j \in 1..Len(records[i]) :
                \A n \in 1..Len(OccsOf(records[i][j][2])) :
                    EmptyOnceNormalized(OccsOf(records[i][j][2])[n])) =>
               FieldLines(FileText) = <<>>
        /\ EmittedDelimiters(records) <= NonEmptyEntriesOf(records)

\* the "^" of a text that are not written as the escape \^
UnescapedCircumflexes(text) == Count(Replace(text, <<"\\", "^">>, <<>>), "^")

\* C9 (as claimed): in the written text every "^" that is not part of the
\* escape \^ is a subfield delimiter the serializer emitted, so there are
\* no more of them than emitted delimiters, whatever references the values
\* hold.
C9_NoDelimiterFromEntities ==
    WriteOk => UnescapedCircumflexes(FileText) <= EmittedDelimiters(records)

----------------------------------------------------------------------------
(* C6: the order of the field lines.                                       *)

\* the record blocks of a written text and the field lines of a block
BlocksOf(text) == Tail(Split(text, <<"!", "I", "D", " ">>))

BlockFields(block) == Tail(Split(block, <<"\n", "!", "v">>))

FieldTag(field) == IntOfDigits(Take(field, 3), 0)

\* the content of a field line: after the tag and "!", without the newline
FieldContent(field) == Take(Drop(field, 4), Len(SplitFrom(Drop(field, 4), <<"\n">>, <<>>)[1]))

\* a text of the letters a and b: written as it is
IsPlain(s) == \A i \in 1..Len(s) : s[i] \in {"a", "b"}

PlainList(field) ==
    /\ field[1] = "list"
    /\ \A n \in 1..Len(field[2]) : field[2][n][1] = "str" /\ IsPlain(field[2][n][2])

\* C6: in each serialized record the "!v" lines are in ascending order of
\* their tag, whatever the order of the keys of the record (any reordering
\* of the keys serializes to the same text), and the lines of a repeatable
\* tag are its non-empty occurrences in the order of the list.
Thm_C6_TagOrder ==
    WriteOk =>
        /\ \A b \in 1..Len(BlocksOf(FileText)) :
               LET fields == BlockFields(BlocksOf(FileText)[b])
               IN  \A x \in 1..(Len(fields) - 1) :
                       FieldTag(fields[x]) <= FieldTag(fields[x + 1])
        /\ \A i \in 1..Len(records) :
               \A f \in PermsOf(Len(records[i])) :
                   _format_record(Permuted(records[i], f)) = _format_record(records[i])
        /\ \A i \in 1..Len(records) :
               \A j \in 1..Len(records[i]) :
                   PlainList(records[i][j][2]) =>
                       LET fields == BlockFields(BlocksOf(FileText)[i])
                           mine   == SelectSeq(fields,
                                         LAMBDA l : FieldTag(l) = IntOf(records[i][j][1])[2])
                           occs   == SelectSeq(records[i][j][2][2], LAMBDA o : o[2] # <<>>)
                       IN  /\ Len(mine) = Len(occs)
                           /\ \A n \in 1..Len(occs) : FieldContent(mine[n]) = occs[n][2]

\* a record whose keys are inserted in descending order, the first a
\* repeatable field of two different occurrences, all of which is written
Wit_C6_TagOrder ==
    /\ WriteOk
    /\ \E i \in 1..Len(records) :
           /\ Len(records[i]) >= 2
           /\ IntOf(records[i][1][1])[2] > IntOf(records[i][2][1])[2]
           /\ PlainList(records[i][1][2])
           /\ Len(records[i][1][2][2]) = 2
           /\ records[i][1][2][2][1] # records[i][1][2][2][2]
           /\ records[i][2][2] = Str(<<"a">>)
           /\ Len(BlockFields(BlocksOf(FileText)[i])) = 3

----------------------------------------------------------------------------
(* C7: the order of the subfields.                                         *)

\* C7, for one subfield set d
SubfieldOrder(d) ==
    LET out     == _format_subfields(d)
        main    == IF DictHas(d, <<"_">>) THEN DictGet(d, <<"_">>) ELSE <<>>
        emitted == SelectSeq(d, LAMBDA e : _format_subfield(e[1], e[2]) # <<>>)
        tokens  == [x \in 1..Len(emitted) |->
                       <<"^">> \o emitted[x][1] \o format_value(emitted[x][2])]
    IN  /\ \E f \in PermsOf(Len(tokens)) :
               /\ \A x \in 1..(Len(tokens) - 1) :
                      ~StrLess(Permuted(tokens, f)[x + 1], Permuted(tokens, f)[x])
               /\ out = format_value(main) \o Flatten(Permuted(tokens, f))
        /\ \A f \in PermsOf(Len(d)) : _format_subfields(Permuted(d, f)) = out

\* the input is one record of one valid tag holding one subfield set
OneDict ==
    /\ Len(records) = 1
    /\ Len(records[1]) = 1
    /\ ValidTagKey(records[1][1][1])
    /\ records[1][1][2][1] = "dict"

\* C7: the rendered content of a subfield set is its normalized main value
\* followed by its subfield tokens "^"+code+value in ascending
\* lexicographic order of the whole token; the same subfields inserted in
\* another order render to the same text, and that text is what the field
\* line of the written file is made from.
Thm_C7_SubfieldOrder ==
    (pc \in {"written", "read"}) =>
        /\ \A i \in 1..Len(records) : \A j \in 1..Len(records[i]) :
               \A n \in 1..Len(OccsOf(records[i][j][2])) :
                   OccsOf(records[i][j][2])[n][1] = "dict" =>
                       SubfieldOrder(OccsOf(records[i][j][2])[n][2])
        /\ (WriteOk /\ OneDict) =>
               LET out == _format_subfields(records[1][1][2][2])
                   key == records[1][1][1]
               IN  FileText =
                       WriteContent(
                           <<"!", "I", "D", " ", "0", "0", "0", "0", "0", "1", "\n">>
                           \o (IF out = <<>> THEN <<>>
                               ELSE <<"!", "v">> \o Zfill(key, 3) \o <<"!">>
                                        \o out \o <<"\n">>))

\* written: a subfield set with b inserted before a, rendered a before b
Wit_C7_SubfieldOrder ==
    /\ WriteOk
    /\ records = << << <<(<<"1">>),
                        Dict(<< <<(<<"b">>), <<"a">>>>, <<(<<"a">>), <<"a">>>> >>)>> >> >>
    /\ IsSubstring(<<"!", "v", "0", "0", "1", "!", "^", "a", "a", "^", "b", "a", "\n">>,
                   FileText)

----------------------------------------------------------------------------
(* C10: the scalar collapse of the parser.                                 *)

\* the text read splits into record bodies
ReadText == Replace(Unescape(FileText), <<"\\", "^">>, PRESERVECIRC)

\* the tag key a field line is stored under
FieldKey(field) == StrOfInt(IntOf(Take(field, 3))[2])

\* the first field line of a tag key
FirstMet(fields, key) == CHOOSE x \in 1..Len(fields) :
    /\ FieldKey(fields[x]) = key
    /\ \A y \in 1..(x - 1) : FieldKey(fields[y]) # key

\* C10: read gives one record per body; a record's keys are the tags met in
\* the body, in the order first met; a tag met once maps to that occurrence
\* itself and a tag met two or more times to the list of its occurrences in
\* the order met.
Thm_C10_ScalarCollapse ==
    (pc = "read" /\ rec_list[1] = "ok") =>
        /\ Len(rec_list[2]) = Len(BlocksOf(ReadText))
        /\ \A b \in 1..Len(rec_list[2]) :
               LET fields == BlockFields(BlocksOf(ReadText)[b])
                   parsed == rec_list[2][b]
               IN  /\ { parsed[x][1] : x \in 1..Len(parsed) }
                          = { FieldKey(fields[y]) : y \in 1..Len(fields) }
                   /\ \A x, y \in 1..Len(parsed) :
                          x < y => FirstMet(fields, parsed[x][1])
                                       < FirstMet(fields, parsed[y][1])
                   /\ \A x \in 1..Len(parsed) :
                          LET mine == SelectSeq(fields,
                                          LAMBDA l : FieldKey(l) = parsed[x][1])
                              occs == [n \in 1..Len(mine) |->
                                          _get_field_data(Strip(Drop(mine[n], 4)))[2]]
                          IN  IF Len(mine) = 1
                              THEN parsed[x][2] = occs[1]
                              ELSE parsed[x][2] = List(occs)

\* read of an export whose lines are tag 1, tag 2, tag 1: tag 1 is a list of
\* two occurrences in the order met, tag 2 a scalar
Wit_C10_ScalarCollapse ==
    /\ pc = "read"
    /\ FileText = <<"!", "I", "D", " ", "0", "0", "0", "0", "0", "1", "\n",
                    "!", "v", "0", "0", "1", "!", "a", "\n",
                    "!", "v", "0", "0", "2", "!", "b", "\n",
                    "!", "v", "0", "0", "1", "!", "b", "^", "a", "b", "\n">>
    /\ rec_list =
           <<"ok",
             << << <<(<<"1">>),
                     List(<<Str(<<"a">>),
                            Dict(<< <<(<<"_">>), <<"b">>>>, <<(<<"a">>), <<"b">>>> >>)>>)>>,
                   <<(<<"2">>), Str(<<"b">>)>> >> >> >>

(***************************************************************************)
(* C11: the codes of the subfield tokens.                                  *)
(***************************************************************************)
\* the entries of a subfield set under the main-value key or a subfield code
CodedEntries(d) == SelectSeq(d, LAMBDA e : e[1] = <<"_">> \/ IsCode(e[1]))

\* the text write produces for one record of one tag holding the set d
WrittenFor(key, d) ==
    decode(encode(WriteContent(_format_file(<< << <<key, Dict(d)>> >> >>)[2])))

\* C11 (as claimed): an entry of a subfield set whose key is neither "_" nor
\* one character of a-z, 1-9 contributes nothing to the output, so the text
\* written for a record of one valid tag holding one subfield set is the
\* text written for the same set without those entries: every token in it
\* comes from an entry keyed by one character of a-z, 1-9.
C11_OnlyCodesEmitted ==
    (WriteOk /\ OneDict) =>
        LET key == records[1][1][1]
            d   == records[1][1][2][2]
        IN  FileText = WrittenFor(key, CodedEntries(d))

====
